---- MODULE Spec2Model ----
(***************************************************************************)
(* The unspent-output index of src/callbacks/common.rs: remove_unspents    *)
(* and insert_unspents acting on one HashMap<Vec<u8>, UnspentValue> while  *)
(* a caller replays the transactions of the blocks in order.               *)
(***************************************************************************)
EXTENDS Integers, Sequences, FiniteSets, TLC

VARIABLES
    unspents,       \* the HashMap<Vec<u8>, UnspentValue>: a function key -> entry
    tx,             \* the transaction the replay loop is at (NoTx between two)
    block_height,   \* the height of the block being replayed
    pc,             \* position of the replay loop: "next", "removed", "inserted"
    ret,            \* the value returned by the last call
    before,         \* history: the map as it was when the last call was entered
    start,          \* history: the map as it was when the loop body was entered
    hist            \* history of the replay (SpecHist), or what is left of it (SpecSeq)

vars == <<unspents, tx, block_height, pc, ret, before, start, hist>>

----------------------------------------------------------------------------
(* Bounds of the model (HashLen, with the data below, is one more) *)

MaxIn == 2          \* most inputs of one transaction

MaxOut == 2         \* most outputs of one transaction

MaxTxs == 2         \* most transactions of a replayed sequence (SpecSeq)

----------------------------------------------------------------------------
(* Data: hashes, outpoints, outputs, transactions *)

\* the bytes of a transaction hash the model keeps (32 in the program; no
\* operation looks inside a hash)
HashLen == 4

Hash(b) == [n \in 1..HashLen |-> b]

HashA == Hash(196)

HashB == Hash(9)

Hashes == {HashA, HashB}

None == "None"

\* the heights of the two blocks of the test
Height1 == 100000

Height2 == 105001

Heights == {Height1, Height2}

\* the value of output 0 of the first test transaction (satoshi)
Value1 == 556000000

\* the value of the outputs whose script resolves to no address: one that no
\* output with an address has
OtherValue == Value1 + 1

Address1 == "1JqDybm2nWTENrHvMyafbSXXtTk5Uv5QAn"

Addresses == {Address1}

\* TxOutpoint::new(txid, index)
TxOutpoint(txid, index) == [txid |-> txid, index |-> index]

\* the outpoints an input may refer to
Outpoints == {TxOutpoint(HashA, 0), TxOutpoint(HashA, 1), TxOutpoint(HashB, 0)}

\* a decoded input: only the outpoint is read
Inputs == {[outpoint |-> o] : o \in Outpoints}

\* a decoded output: out.value and script.address (Some(address) or None)
Outputs ==
    {[value |-> OtherValue, address |-> None],
     [value |-> Value1, address |-> Address1]}

SeqsUpTo(S, n) == UNION {[1..m -> S] : m \in 0..n}

\* a decoded Hashed<Tx>: the decoder reads in_count and then that many inputs
Txs ==
    {[hash |-> h, in_count |-> Len(ins), inputs |-> ins, outputs |-> outs] :
        h \in Hashes, ins \in SeqsUpTo(Inputs, MaxIn), outs \in SeqsUpTo(Outputs, MaxOut)}

NoTx == [hash |-> <<>>, in_count |-> 0, inputs |-> <<>>, outputs |-> <<>>]

----------------------------------------------------------------------------
(* The outpoint key: hash bytes followed by the index as 4 little-endian   *)
(* bytes                                                                   *)

\* `i as u32`: the low 32 bits of the position, as two 16-bit halves
AsU32(n) == ((n \div 65536) % 65536) * 65536 + (n % 65536)

LE32(n) == <<n % 256, (n \div 256) % 256, (n \div 65536) % 256, (n \div 16777216) % 256>>

to_bytes(outpoint) == outpoint.txid \o LE32(outpoint.index)

----------------------------------------------------------------------------
(* HashMap operations *)

EmptyMap == <<>>

contains_key(map, key) == key \in DOMAIN map

MapRemove(map, key) == [k \in (DOMAIN map) \ {key} |-> map[k]]

\* faulty variant: an entry already present is kept (entry().or_insert())
MapInsert_keep(map, key, value) ==
    [k \in (DOMAIN map) \cup {key} |-> IF k \in DOMAIN map THEN map[k] ELSE value]

MapInsert(map, key, value) ==
    [k \in (DOMAIN map) \cup {key} |-> IF k = key THEN value ELSE map[k]]

----------------------------------------------------------------------------
(* remove_unspents *)

\* the key the loop body builds for one input
RemoveKey(input) == to_bytes(input.outpoint)

\* faulty variant: the test of contains_key is inverted
RemoveOne_inverted(map, input) ==
    LET key == RemoveKey(input)
    IN  IF ~contains_key(map, key) THEN MapRemove(map, key) ELSE map

\* faulty variant: every entry of the referenced transaction is removed
RemoveOne_txid(map, input) ==
    [k \in {j \in DOMAIN map : SubSeq(j, 1, HashLen) # input.outpoint.txid} |-> map[k]]

\* one pass of the loop body
RemoveOne(map, input) ==
    LET key == RemoveKey(input)
    IN  IF contains_key(map, key) THEN MapRemove(map, key) ELSE map

\* faulty variant: the loop stops after the first entry it removes
RECURSIVE RemoveLoop_first(_, _)
RemoveLoop_first(inputs, map) ==
    IF inputs = <<>> THEN map
    ELSE IF contains_key(map, RemoveKey(Head(inputs)))
         THEN MapRemove(map, RemoveKey(Head(inputs)))
         ELSE RemoveLoop_first(Tail(inputs), map)

RECURSIVE RemoveLoop(_, _)
RemoveLoop(inputs, map) ==
    IF inputs = <<>> THEN map
    ELSE RemoveLoop(Tail(inputs), RemoveOne(map, Head(inputs)))

\* faulty variant: the number of entries removed is returned
remove_unspents_hits(t, map) ==
    LET after == RemoveLoop(t.inputs, map)
    IN  [unspents |-> after,
         ret |-> Cardinality(DOMAIN map) - Cardinality(DOMAIN after)]

remove_unspents(t, map) ==
    [unspents |-> RemoveLoop(t.inputs, map), ret |-> t.in_count]

----------------------------------------------------------------------------
(* insert_unspents *)

\* faulty variant: value and block_height change places
UnspentValue_swapped(height, address, value) ==
    [block_height |-> value, value |-> height, address |-> address]

UnspentValue(height, address, value) ==
    [block_height |-> height, value |-> value, address |-> address]

\* faulty variant: the position is counted from 1
InsertKey_from1(hash, i) == to_bytes(TxOutpoint(hash, AsU32(i + 1)))

\* the key the loop body builds for the output at 0-based position i
InsertKey(hash, i) == to_bytes(TxOutpoint(hash, AsU32(i)))

\* faulty variant: an output without address is registered and counted too
InsertOne_all(acc, hash, height, i, output) ==
    [unspents |-> MapInsert(acc.unspents, InsertKey(hash, i),
                            UnspentValue(height, output.address, output.value)),
     count |-> acc.count + 1]

\* faulty variant: an output without address evicts the entry under its key
InsertOne_evict(acc, hash, height, i, output) ==
    IF output.address # None
    THEN [unspents |-> MapInsert(acc.unspents, InsertKey(hash, i),
                                 UnspentValue(height, output.address, output.value)),
          count |-> acc.count + 1]
    ELSE [unspents |-> MapRemove(acc.unspents, InsertKey(hash, i)), count |-> acc.count]

\* one pass of the loop body over the accumulator [unspents, count]
InsertOne(acc, hash, height, i, output) ==
    IF output.address # None
    THEN [unspents |-> MapInsert(acc.unspents, InsertKey(hash, i),
                                 UnspentValue(height, output.address, output.value)),
          count |-> acc.count + 1]
    ELSE acc

\* faulty variant: the key index is the number of outputs registered so far
RECURSIVE InsertLoop_dense(_, _, _, _, _)
InsertLoop_dense(outputs, hash, height, i, acc) ==
    IF i >= Len(outputs) THEN acc
    ELSE InsertLoop_dense(outputs, hash, height, i + 1,
                          InsertOne(acc, hash, height, acc.count, outputs[i + 1]))

RECURSIVE InsertLoop(_, _, _, _, _)
InsertLoop(outputs, hash, height, i, acc) ==
    IF i >= Len(outputs) THEN acc
    ELSE InsertLoop(outputs, hash, height, i + 1,
                    InsertOne(acc, hash, height, i, outputs[i + 1]))

\* faulty variant: the number of outputs is returned
insert_unspents_len(t, height, map) ==
    LET acc == InsertLoop(t.outputs, t.hash, height, 0, [unspents |-> map, count |-> 0])
    IN  [unspents |-> acc.unspents, ret |-> Len(t.outputs)]

insert_unspents(t, height, map) ==
    LET acc == InsertLoop(t.outputs, t.hash, height, 0, [unspents |-> map, count |-> 0])
    IN  [unspents |-> acc.unspents, ret |-> acc.count]

----------------------------------------------------------------------------
(* The replay: for each block, for tx in &block.txs                        *)
(*     { remove_unspents(tx, unspents); insert_unspents(tx, height, unspents) } *)

\* the keys the inputs of t refer to, and the keys of its outputs with an address
InputKeys(t) == {to_bytes(t.inputs[n].outpoint) : n \in 1..Len(t.inputs)}

ResolvedAt(t) == {i \in 0..(Len(t.outputs) - 1) : t.outputs[i + 1].address # None}

UnresolvedAt(t) == {i \in 0..(Len(t.outputs) - 1) : t.outputs[i + 1].address = None}

OutputKey(t, i) == to_bytes(TxOutpoint(t.hash, i))

ResolvedKeys(t) == {OutputKey(t, i) : i \in ResolvedAt(t)}

NoHist == [registered |-> {}, referenced |-> {}, spent |-> {}]

\* history after the inputs of t were handled: every key they refer to is
\* referenced, and spent until an output is registered under it again
HistRemove(h, t) ==
    [h EXCEPT !.referenced = @ \cup InputKeys(t), !.spent = @ \cup InputKeys(t)]

\* history after the outputs of t were handled
HistInsert(h, t) ==
    [h EXCEPT !.registered = @ \cup ResolvedKeys(t), !.spent = @ \ ResolvedKeys(t)]

Init ==
    /\ unspents = EmptyMap
    /\ tx = NoTx
    /\ block_height = Height1
    /\ pc = "next"
    /\ ret = 0
    /\ before = EmptyMap
    /\ start = EmptyMap
    /\ hist = NoHist

\* faulty variant: a key that is not in the index ends the replay
\* (unspents.remove(&key).unwrap())
Remove_unwrap(track) ==
    /\ pc = "next"
    /\ \E t \in Txs :
        LET r == remove_unspents(t, unspents)
        IN  /\ tx' = t
            /\ unspents' = r.unspents
            /\ ret' = r.ret
            /\ hist' = IF track THEN HistRemove(hist, t) ELSE hist
            /\ pc' = IF InputKeys(t) \subseteq DOMAIN unspents THEN "removed" ELSE "panicked"
    /\ before' = unspents
    /\ start' = unspents
    /\ UNCHANGED block_height

Remove(track) ==
    /\ pc = "next"
    /\ \E t \in Txs :
        LET r == remove_unspents(t, unspents)
        IN  /\ tx' = t
            /\ unspents' = r.unspents
            /\ ret' = r.ret
            /\ hist' = IF track THEN HistRemove(hist, t) ELSE hist
    /\ before' = unspents
    /\ start' = unspents
    /\ pc' = "removed"
    /\ UNCHANGED block_height

\* faulty variant: the two calls of the loop body run in the other order
Insert_first(track) ==
    /\ pc = "removed"
    /\ LET r == insert_unspents(tx, block_height, start)
       IN  /\ unspents' = remove_unspents(tx, r.unspents).unspents
           /\ ret' = r.ret
    /\ hist' = IF track THEN HistInsert(hist, tx) ELSE hist
    /\ before' = unspents
    /\ pc' = "inserted"
    /\ UNCHANGED <<tx, block_height, start>>

Insert(track) ==
    /\ pc = "removed"
    /\ LET r == insert_unspents(tx, block_height, unspents)
       IN  /\ unspents' = r.unspents
           /\ ret' = r.ret
    /\ hist' = IF track THEN HistInsert(hist, tx) ELSE hist
    /\ before' = unspents
    /\ pc' = "inserted"
    /\ UNCHANGED <<tx, block_height, start>>

\* the loop goes on to the next transaction
Advance ==
    /\ pc = "inserted"
    /\ pc' = "next"
    /\ tx' = NoTx
    /\ ret' = 0
    /\ before' = unspents
    /\ start' = unspents
    /\ UNCHANGED <<unspents, block_height, hist>>

\* the replay goes on to the next block
NextBlock ==
    /\ pc = "next"
    /\ \E h \in Heights : h > block_height /\ block_height' = h
    /\ UNCHANGED <<unspents, tx, pc, ret, before, start, hist>>

RemoveCall == Remove(FALSE)

InsertCall == Insert(FALSE)

Next == RemoveCall \/ InsertCall \/ Advance \/ NextBlock

Spec == Init /\ [][Next]_vars

\* the replay of the transactions of one block, with its history
RemoveTracked == Remove(TRUE)

InsertTracked == Insert(TRUE)

NextHist == RemoveTracked \/ InsertTracked \/ Advance

SpecHist == Init /\ [][NextHist]_vars

\* the replay of a finite sequence of transactions: hist.left of them are still
\* to be processed; the loop runs on while the iterator yields one
InitSeq ==
    /\ unspents = EmptyMap
    /\ tx = NoTx
    /\ block_height = Height1
    /\ pc = "next"
    /\ ret = 0
    /\ before = EmptyMap
    /\ start = EmptyMap
    /\ hist \in {[left |-> n] : n \in 0..MaxTxs}

RemoveSeq == hist.left > 0 /\ Remove(FALSE)

AdvanceSeq ==
    /\ pc = "inserted"
    /\ pc' = "next"
    /\ tx' = NoTx
    /\ ret' = 0
    /\ before' = unspents
    /\ start' = unspents
    /\ hist' = [left |-> hist.left - 1]
    /\ UNCHANGED <<unspents, block_height>>

NextSeq == RemoveSeq \/ InsertCall \/ AdvanceSeq

\* the loop is sequential code: a step that can be taken is taken
SpecSeq == InitSeq /\ [][NextSeq]_vars /\ WF_vars(NextSeq)

\* every transaction of the sequence was processed
Done == pc = "next" /\ hist.left = 0

----------------------------------------------------------------------------
(* Properties *)

NumResolved(t) == Cardinality(ResolvedAt(t))

\* the entry insert_unspents is to store for output i of t in the current block
NewEntry(t, i) ==
    [block_height |-> block_height,
     value |-> t.outputs[i + 1].value,
     address |-> t.outputs[i + 1].address]

\* t without its outputs that resolve to no address
WithoutUnresolved(t) ==
    [t EXCEPT !.outputs = SelectSeq(@, LAMBDA o : o.address # None)]

\* the body of the replay loop for one transaction: its inputs, then its outputs
ProcessTx(t, height, map) ==
    insert_unspents(t, height, remove_unspents(t, map).unspents).unspents

\* the replay loop over a sequence of transactions, in the order of the sequence
RECURSIVE Replay(_, _, _)
Replay(txs, height, map) ==
    IF txs = <<>> THEN map
    ELSE Replay(Tail(txs), height, ProcessTx(Head(txs), height, map))

\* output positions whose four index bytes differ in every place
Positions == (0..(MaxOut - 1)) \cup {255, 256, 65535, 65536, 16777215, 16777216}

\* C1 as stated: after any prefix of the replay the index holds exactly the
\* outpoints registered by a resolved output of a processed transaction and
\* referenced by no input of any processed transaction.
C1_Original ==
    pc # "removed" => DOMAIN unspents = hist.registered \ hist.referenced

\* C1 amended: after any prefix of the replay the index holds exactly the
\* outpoints registered by a resolved output of a processed transaction and not
\* referenced by an input of a transaction processed after the one that last
\* registered them.
C1_ReplayInvariant ==
    pc # "removed" => DOMAIN unspents = hist.registered \ hist.spent

\* C1 witness: an outpoint is in the index although an input of a processed
\* transaction referenced it, while another registered outpoint is spent.
C1_Witness ==
    /\ pc = "inserted"
    /\ \E k \in DOMAIN unspents : k \in hist.referenced
    /\ hist.registered \cap hist.spent # {}

\* C2 as stated: insert_unspents returns K, the K resolved outputs are in the
\* index, and the keys of the unresolved outputs are absent afterwards.
C2_Original ==
    pc = "inserted" =>
        /\ ret = NumResolved(tx)
        /\ Cardinality(ResolvedKeys(tx)) = NumResolved(tx)
        /\ ResolvedKeys(tx) \subseteq DOMAIN unspents
        /\ \A i \in UnresolvedAt(tx) : OutputKey(tx, i) \notin DOMAIN unspents

\* C2 amended: insert_unspents returns K and writes exactly the K keys of the
\* resolved outputs; the key of an unresolved output is left as it was, absent
\* afterwards exactly when it was absent before the call.
C2_InsertCount ==
    pc = "inserted" =>
        /\ ret = NumResolved(tx)
        /\ Cardinality(ResolvedKeys(tx)) = NumResolved(tx)
        /\ DOMAIN unspents = (DOMAIN before) \cup ResolvedKeys(tx)
        /\ \A k \in (DOMAIN unspents) \ ResolvedKeys(tx) : unspents[k] = before[k]
        /\ \A i \in UnresolvedAt(tx) :
              OutputKey(tx, i) \in DOMAIN unspents <=> OutputKey(tx, i) \in DOMAIN before

\* C2 witness: a transaction with a resolved and an unresolved output was
\* registered while the key of the unresolved output was in the index.
C2_Witness ==
    /\ pc = "inserted"
    /\ ret >= 1
    /\ \E i \in UnresolvedAt(tx) : OutputKey(tx, i) \in DOMAIN unspents

\* C3: remove_unspents removes at most M entries, M the number of inputs, adds
\* and changes none, and returns M whatever number it removed.
C3_RemoveCount ==
    pc = "removed" =>
        /\ ret = Len(tx.inputs)
        /\ DOMAIN unspents \subseteq DOMAIN before
        /\ Cardinality(DOMAIN before) - Cardinality(DOMAIN unspents) <= Len(tx.inputs)
        /\ \A k \in DOMAIN unspents : unspents[k] = before[k]

\* C3 witness: two inputs were processed, one entry was removed, 2 was returned.
C3_Witness ==
    /\ pc = "removed"
    /\ Len(tx.inputs) = 2
    /\ ret = 2
    /\ Cardinality(DOMAIN before) - Cardinality(DOMAIN unspents) = 1

\* C4: the key insert_unspents builds for output i of the transaction with hash
\* H is the key remove_unspents builds for an input referencing (H, i), so after
\* remove_unspents no entry is left under the insert key of any of its inputs.
C4_KeyAgreement ==
    /\ pc = "next" =>
          \A h \in Hashes, i \in Positions :
              InsertKey(h, i) = RemoveKey([outpoint |-> TxOutpoint(h, i)])
    /\ pc = "removed" =>
          \A n \in 1..Len(tx.inputs) :
              LET o == tx.inputs[n].outpoint
              IN  /\ InsertKey(o.txid, o.index) = RemoveKey(tx.inputs[n])
                  /\ InsertKey(o.txid, o.index) \notin DOMAIN unspents

\* C4 witness: an entry registered under the insert key of (H, i) was found and
\* removed by an input referencing (H, i).
C4_Witness ==
    /\ pc = "removed"
    /\ \E n \in 1..Len(tx.inputs) :
          LET k == InsertKey(tx.inputs[n].outpoint.txid, tx.inputs[n].outpoint.index)
          IN  k \in DOMAIN before /\ k \notin DOMAIN unspents

\* C5 as stated: once B, which references a registered outpoint (A.hash, i), is
\* processed, that key is absent and every resolved output of B is present.
C5_Original ==
    pc = "inserted" =>
        /\ \A k \in InputKeys(tx) : k \in DOMAIN start => k \notin DOMAIN unspents
        /\ ResolvedKeys(tx) \subseteq DOMAIN unspents

\* C5 amended: once B is processed, the key (A.hash, i) is absent unless B has
\* the hash of A and a resolved output at position i, in which case the key holds
\* the entry of B; every resolved output j of B is present under (B.hash, j).
C5_SpendAfterRegistration ==
    pc = "inserted" =>
        /\ \A k \in InputKeys(tx) :
              /\ k \notin DOMAIN before
              /\ k \in DOMAIN unspents => k \in ResolvedKeys(tx)
        /\ \A j \in ResolvedAt(tx) :
              /\ OutputKey(tx, j) \in DOMAIN unspents
              /\ unspents[OutputKey(tx, j)] = NewEntry(tx, j)

\* C5 witness: B spent an outpoint of another transaction that was in the index
\* and registered an output of its own.
C5_Witness ==
    /\ pc = "inserted"
    /\ ResolvedKeys(tx) # {}
    /\ \E k \in InputKeys(tx) :
          k \in DOMAIN start /\ k \notin DOMAIN unspents /\ SubSeq(k, 1, HashLen) # tx.hash

\* C6: right after insert_unspents(T, h, index) the lookup of (T.hash, i) of a
\* resolved output yields block_height h, the value and the address of output i.
C6_LookupAfterRegistration ==
    pc = "inserted" =>
        \A i \in ResolvedAt(tx) :
            /\ OutputKey(tx, i) \in DOMAIN unspents
            /\ unspents[OutputKey(tx, i)].block_height = block_height
            /\ unspents[OutputKey(tx, i)].value = tx.outputs[i + 1].value
            /\ unspents[OutputKey(tx, i)].address = tx.outputs[i + 1].address

\* C6 witness: the first block of the test: output 0, registered at height
\* 100000, is looked up.
C6_Witness ==
    /\ pc = "inserted"
    /\ 0 \in ResolvedAt(tx)
    /\ OutputKey(tx, 0) \in DOMAIN unspents
    /\ unspents[OutputKey(tx, 0)] =
          [block_height |-> Height1, value |-> Value1, address |-> Address1]

\* C7: running remove_unspents a second time on the state the first run left
\* changes nothing in the index and returns the same count.
C7_RemoveIdempotent ==
    pc = "removed" =>
        /\ remove_unspents(tx, unspents).unspents = unspents
        /\ remove_unspents(tx, unspents).ret = ret

\* C7 witness: the first run had two inputs and removed an entry for each.
C7_Witness ==
    /\ pc = "removed"
    /\ Len(tx.inputs) = 2
    /\ Cardinality(DOMAIN before) - Cardinality(DOMAIN unspents) = 2

\* C8: no entry of the index comes from an output without address: every entry
\* has an address, insert_unspents writes only keys of resolved outputs, and the
\* count it returns is the count for the transaction without those outputs.
C8_NonStandardOutputs ==
    /\ \A k \in DOMAIN unspents :
          unspents[k].address \in Addresses /\ unspents[k].value # OtherValue
    /\ pc = "inserted" =>
          /\ \A k \in DOMAIN unspents :
                (k \notin DOMAIN before \/ unspents[k] # before[k]) => k \in ResolvedKeys(tx)
          /\ ret = NumResolved(tx)
          /\ ret = insert_unspents(WithoutUnresolved(tx), block_height, before).ret

\* C8 witness: a transaction with an unresolved output followed by a resolved
\* one was registered; 1 was returned.
C8_Witness ==
    /\ pc = "inserted"
    /\ Len(tx.outputs) = 2
    /\ 0 \in UnresolvedAt(tx)
    /\ 1 \in ResolvedAt(tx)
    /\ ret = 1

\* C9: an input referencing an absent key is a no-op: remove_unspents adds and
\* changes no entry, keeps every entry its inputs do not reference, and counts
\* the input in the value it returns.
C9_DanglingSpend ==
    pc = "removed" =>
        /\ DOMAIN unspents = (DOMAIN before) \ InputKeys(tx)
        /\ \A k \in DOMAIN unspents : unspents[k] = before[k]
        /\ InputKeys(tx) \cap DOMAIN before = {} => unspents = before
        /\ ret = Len(tx.inputs)

\* C9 witness: every input referenced an absent key while the index held
\* entries; the index is as before and the inputs were counted.
C9_Witness ==
    /\ pc = "removed"
    /\ before # EmptyMap
    /\ InputKeys(tx) # {}
    /\ InputKeys(tx) \cap DOMAIN before = {}
    /\ unspents = before
    /\ ret = Len(tx.inputs)
    /\ ret >= 1

\* C10: when the key of a resolved output is already in the index, the new entry
\* replaces the old one, the index grows only by the keys that were absent, and
\* the output is counted.
C10_DuplicateKeyOverwrite ==
    pc = "inserted" =>
        /\ \A i \in ResolvedAt(tx) :
              OutputKey(tx, i) \in DOMAIN before =>
                  /\ OutputKey(tx, i) \in DOMAIN unspents
                  /\ unspents[OutputKey(tx, i)] = NewEntry(tx, i)
        /\ Cardinality(DOMAIN unspents) =
              Cardinality(DOMAIN before)
                  + Cardinality({i \in ResolvedAt(tx) : OutputKey(tx, i) \notin DOMAIN before})
        /\ ret = NumResolved(tx)

\* C10 witness: an entry of height 100000 was replaced by one of height 105001
\* under the same key.
C10_Witness ==
    /\ pc = "inserted"
    /\ \E i \in ResolvedAt(tx) :
          /\ OutputKey(tx, i) \in DOMAIN before
          /\ before[OutputKey(tx, i)].block_height = Height1
          /\ unspents[OutputKey(tx, i)].block_height = Height2
    /\ Cardinality(DOMAIN unspents) = Cardinality(DOMAIN before)
    /\ ret >= 1

\* C11 as stated: an entry is created only by insert_unspents, removed only by
\* remove_unspents, and its block_height, value and address under a given key
\* never change while the key stays in the index.
C11_Original ==
    [][/\ pc' = "removed" => DOMAIN unspents' \subseteq DOMAIN unspents
       /\ pc' = "inserted" => DOMAIN unspents \subseteq DOMAIN unspents'
       /\ pc' \notin {"removed", "inserted"} => DOMAIN unspents' = DOMAIN unspents
       /\ \A k \in (DOMAIN unspents) \cap (DOMAIN unspents') : unspents'[k] = unspents[k]
      ]_vars

\* C11 amended: remove_unspents adds and changes no entry; insert_unspents
\* deletes no key, creates entries, and changes an entry already in the index
\* only under the key of a resolved output of its transaction, where the entry
\* of that output replaces it; no other step touches the index.
C11_EntryLifecycle ==
    [][/\ pc' = "removed" =>
             /\ DOMAIN unspents' \subseteq DOMAIN unspents
             /\ \A k \in DOMAIN unspents' : unspents'[k] = unspents[k]
       /\ pc' = "inserted" =>
             /\ DOMAIN unspents \subseteq DOMAIN unspents'
             /\ \A k \in DOMAIN unspents :
                   unspents'[k] # unspents[k] =>
                       \E i \in ResolvedAt(tx) :
                           k = OutputKey(tx, i) /\ unspents'[k] = NewEntry(tx, i)
       /\ pc' \notin {"removed", "inserted"} => unspents' = unspents
      ]_vars

\* C11 witness: insert_unspents has changed the entry under a key that was in
\* the index, beside an entry it left as it was.
C11_Witness ==
    /\ pc = "inserted"
    /\ \E k \in DOMAIN before : unspents[k] # before[k]
    /\ \E k \in DOMAIN before : k \notin ResolvedKeys(tx) /\ unspents[k] = before[k]

\* C12: the final index depends on the processing order: when B, whose input
\* names o without B registering o, is processed first and A, with a resolved
\* output o, after it, o is in the index at the end, while A processed before B
\* leaves o absent; in a replay an output registered under an outpoint an
\* earlier input referenced is present.
C12_OrderDependence ==
    /\ (pc = "inserted" /\ start = EmptyMap
            /\ hist = HistInsert(HistRemove(NoHist, tx), tx)) =>
          \A A \in Txs :
              \A o \in (ResolvedKeys(A) \cap InputKeys(tx)) \ ResolvedKeys(tx) :
                  /\ o \in DOMAIN ProcessTx(A, block_height, unspents)
                  /\ o \notin DOMAIN Replay(<<A, tx>>, block_height, start)
    /\ pc = "inserted" =>
          \A o \in ResolvedKeys(tx) \cap hist.referenced : o \in DOMAIN unspents

\* C12 witness: the replay processed B, whose input names o, and then A, whose
\* resolved output is o: o is in the index, and the ledger order would leave it
\* absent.
C12_Witness ==
    /\ pc = "inserted"
    /\ hist.registered # {}
    /\ \E o \in ResolvedKeys(tx) \ (InputKeys(tx) \cup DOMAIN start) :
          /\ o \in hist.referenced
          /\ o \in DOMAIN unspents
          /\ \E B \in Txs :
                /\ o \in InputKeys(B) \ ResolvedKeys(B)
                /\ start = ProcessTx(B, block_height, EmptyMap)
                /\ unspents = Replay(<<B, tx>>, block_height, EmptyMap)
                /\ o \notin DOMAIN Replay(<<tx, B>>, block_height, EmptyMap)

\* C13: for each transaction remove_unspents runs first and to its end, then
\* insert_unspents runs on the same transaction and on the index remove_unspents
\* left, and only then the replay turns to the next transaction.
C13_PerTransactionOrder ==
    [][/\ pc = "next" =>
             \/ pc' = "next" /\ tx' = NoTx /\ unspents' = unspents
             \/ /\ pc' = "removed"
                /\ tx' # NoTx
                /\ start' = unspents
                /\ unspents' = remove_unspents(tx', unspents).unspents
       /\ pc = "removed" =>
             /\ pc' = "inserted"
             /\ tx' = tx
             /\ start' = start
             /\ unspents' = insert_unspents(tx, block_height, unspents).unspents
             /\ unspents' = ProcessTx(tx, block_height, start)
       /\ pc = "inserted" => pc' = "next" /\ tx' = NoTx /\ unspents' = unspents
      ]_vars

\* C13 witness: both calls were made for a transaction whose inputs name one of
\* its own outputs, after an earlier transaction was processed: the index is the
\* one of inputs-then-outputs, not the one of the other order.
C13_Witness ==
    /\ pc = "inserted"
    /\ start # EmptyMap
    /\ unspents = ProcessTx(tx, block_height, start)
    /\ unspents # remove_unspents(tx, insert_unspents(tx, block_height, start).unspents).unspents

\* C14: every call returns a count and the replay reaches no error state:
\* whatever the transactions of a finite sequence are, unresolved outputs and
\* dangling spends included, the replay goes on until every one is processed.
C14_NoFatalCondition ==
    /\ [](pc \in {"next", "removed", "inserted"} /\ ret \in Nat)
    /\ [](pc = "removed" => ret = tx.in_count)
    /\ [](pc = "inserted" => ret = NumResolved(tx))
    /\ <>Done

\* C14 witness: the last transaction of a sequence of two, with an output
\* without address and an input naming a key that is not in the index, went
\* through both calls, each returning its count.
C14_Witness ==
    /\ pc = "inserted"
    /\ hist.left = 1
    /\ start # EmptyMap
    /\ UnresolvedAt(tx) # {}
    /\ InputKeys(tx) \ DOMAIN start # {}
    /\ ret = NumResolved(tx)
    /\ ret >= 1

\* C15: a resolved output that follows k outputs without address and j resolved
\* ones is stored under (T.hash, k + j), its position in the full output list;
\* when position j holds an output without address, nothing is written under
\* (T.hash, j).
C15_OutputPosition ==
    pc = "inserted" =>
        \A i \in ResolvedAt(tx) :
            LET k == Cardinality({n \in UnresolvedAt(tx) : n < i})
                j == Cardinality({n \in ResolvedAt(tx) : n < i})
                stored == to_bytes(TxOutpoint(tx.hash, k + j))
                dense == to_bytes(TxOutpoint(tx.hash, j))
            IN  /\ stored \in DOMAIN unspents
                /\ unspents[stored] = NewEntry(tx, i)
                /\ j \in UnresolvedAt(tx) =>
                      /\ dense \in DOMAIN unspents <=> dense \in DOMAIN before
                      /\ dense \in DOMAIN before => unspents[dense] = before[dense]

\* C15 witness: output 0 has no address and output 1 has one: the entry of
\* output 1 is under (T.hash, 1) and there is no entry under (T.hash, 0).
C15_Witness ==
    /\ pc = "inserted"
    /\ 0 \in UnresolvedAt(tx)
    /\ 1 \in ResolvedAt(tx)
    /\ OutputKey(tx, 1) \in DOMAIN unspents
    /\ unspents[OutputKey(tx, 1)] = NewEntry(tx, 1)
    /\ OutputKey(tx, 0) \notin DOMAIN unspents

\* C16: remove_unspents makes the index smaller by exactly the number of distinct
\* keys its inputs name that were in the index before the call: a key named by
\* several inputs, or already gone, is removed at most once.
C16_ExactSizeChange ==
    pc = "removed" =>
        /\ Cardinality(DOMAIN before) - Cardinality(DOMAIN unspents)
              = Cardinality(InputKeys(tx) \cap DOMAIN before)
        /\ (DOMAIN before) \ (DOMAIN unspents) = InputKeys(tx) \cap DOMAIN before

\* C16 witness: two inputs named the same key, which was in the index beside
\* another entry: the index is smaller by one.
C16_Witness ==
    /\ pc = "removed"
    /\ Len(tx.inputs) = 2
    /\ tx.inputs[1] = tx.inputs[2]
    /\ RemoveKey(tx.inputs[1]) \in DOMAIN before
    /\ Cardinality(DOMAIN before) >= 2
    /\ Cardinality(DOMAIN unspents) = Cardinality(DOMAIN before) - 1

\* C17: right after T is processed every resolved output i of T is in the index
\* under (T.hash, i) with its entry, also when an input of T itself or an input
\* of a transaction processed earlier names (T.hash, i).
C17_OwnOutputsSurvive ==
    pc = "inserted" =>
        \A i \in ResolvedAt(tx) :
            OutputKey(tx, i) \in InputKeys(tx) \cup hist.referenced =>
                /\ OutputKey(tx, i) \in DOMAIN unspents
                /\ unspents[OutputKey(tx, i)] = NewEntry(tx, i)
                /\ OutputKey(tx, i) \notin hist.spent

\* C17 witness: an input of T named a resolved output of T that was in the
\* index, and an input of a transaction processed earlier named another one;
\* both outputs are in the index after T.
C17_Witness ==
    /\ pc = "inserted"
    /\ \E i \in ResolvedAt(tx) :
          /\ OutputKey(tx, i) \in InputKeys(tx) \cap DOMAIN start
          /\ unspents[OutputKey(tx, i)] = NewEntry(tx, i)
    /\ \E i \in ResolvedAt(tx) :
          /\ OutputKey(tx, i) \in hist.referenced \ InputKeys(tx)
          /\ unspents[OutputKey(tx, i)] = NewEntry(tx, i)

====
